---- MODULE Spec2Model ----
(***************************************************************************)
(* Model of the article daemon: the scheduler loop of                      *)
(* src/production/daemon.py, the pipeline of src/production/graph.py with  *)
(* its nodes, the generation client of src/llm_client.py and the          *)
(* retrieval store of src/services/rag_store.py.                           *)
(*                                                                         *)
(* Seven specifications share the variables:                               *)
(*   Spec       the scheduler, with a pipeline run as one step whose       *)
(*              outcome is any outcome a run can have;                     *)
(*   PipeSpec   the same scheduler on a one-game catalog, with the pipeline*)
(*              run stage by stage, the generation client attempt by       *)
(*              attempt and the image task interleaved with it;            *)
(*   RagSpec    the retrieval store driven through its public methods;     *)
(*   NodeSpec   the fact validator, the query generator, the chunk filter, *)
(*              the session directory, the published-set test and the      *)
(*              provider tiers, each called once on any input;             *)
(*   SelSpec    batch selection on its own, from any game list the loader  *)
(*              gives, published set and scheduler state, under weak       *)
(*              fairness of its loop;                                      *)
(*   LiveSpec   the scheduler that is never stopped from outside, under    *)
(*              weak fairness of its steps;                                *)
(*   ClientSpec the generation client on its own, request after request.   *)
(***************************************************************************)
EXTENDS Integers, Sequences, FiniteSets, TLC

\* ------------------------------------------------------------------------
\* Bounds of the model
\* ------------------------------------------------------------------------

\* the daily limit (50 in daemon.py:23), scaled down
DAILY_LIMIT == 2

\* ------------------------------------------------------------------------
\* Text: a string is a sequence of one-character strings
\* ------------------------------------------------------------------------

Lower(c) ==
  CASE c = "A" -> "a"
    [] c = "B" -> "b"
    [] c = "X" -> "x"
    [] OTHER -> c

IsSpace(c) == c = " "

\* \w of Python's re on str: letters, digits and the underscore
IsWord(c) == c \in {"a", "b", "x", "A", "B", "X", "_", "0", "1"}

LowerStr(s) == [i \in 1..Len(s) |-> Lower(s[i])]

RECURSIVE LStrip(_)
LStrip(s) == IF s # <<>> /\ IsSpace(Head(s)) THEN LStrip(Tail(s)) ELSE s

RECURSIVE RStrip(_)
RStrip(s) ==
  IF s # <<>> /\ IsSpace(s[Len(s)]) THEN RStrip(SubSeq(s, 1, Len(s) - 1)) ELSE s

Strip(s) == LStrip(RStrip(s))

\* topic_str.lower().strip(), the key of the published-topics set
NormTopic(s) == Strip(LowerStr(s))

\* re.sub(r'[^\w\s-]', '', s)
RECURSIVE DropPunct(_)
DropPunct(s) ==
  IF s = <<>> THEN <<>>
  ELSE IF IsWord(Head(s)) \/ IsSpace(Head(s)) \/ Head(s) = "-"
       THEN <<Head(s)>> \o DropPunct(Tail(s))
       ELSE DropPunct(Tail(s))

IsSep(c) == IsSpace(c) \/ c = "_" \/ c = "-"

\* re.sub(r'[\s_-]+', '_', s): every maximal run of separators becomes one "_"
RECURSIVE CollapseSeps(_, _)
CollapseSeps(s, inRun) ==
  IF s = <<>> THEN <<>>
  ELSE IF IsSep(Head(s))
       THEN (IF inRun THEN <<>> ELSE <<"_">>) \o CollapseSeps(Tail(s), TRUE)
       ELSE <<Head(s)>> \o CollapseSeps(Tail(s), FALSE)

MaxSlugLen == 60

Truncate(s, n) == SubSeq(s, 1, IF Len(s) < n THEN Len(s) ELSE n)

get_safe_filename(title) ==
  Truncate(CollapseSeps(DropPunct(Strip(LowerStr(title))), FALSE), MaxSlugLen)

\* ------------------------------------------------------------------------
\* The topic backlog and the game catalog
\* ------------------------------------------------------------------------

Topics == {"a", "b", "c"}

\* the "topic" field of each backlog row
TopicText ==
  [t \in Topics |->
     CASE t = "a" -> <<"A", "b", " ", "x">>
       [] t = "b" -> <<"b", "-", "a", "!">>
       [] t = "c" -> <<" ", "x", "_", "B">>]

\* a title the outline planner may give an article instead of the topic text
OtherTitle == <<"X">>

\* the catalogs _load_games_ordered can return, already in (tier, id) order;
\* each game is given by the rows of the backlog that contain its name
FullCatalog == << <<"a", "b">>, <<"c">> >>
SmallCatalog == << <<"a", "b">> >>


\* ------------------------------------------------------------------------
\* State
\* ------------------------------------------------------------------------

VARIABLES
  pc,               \* where the daemon process is
  games,            \* the list _load_games_ordered returned
  diskState,        \* daemon_state.json: whether it exists, and its content
  sink,             \* the articles held by the publishing sink
  state,            \* the scheduler state dict of run_daemon_mode
  published_topics, \* in-memory set of normalized published topics
  published_slugs,  \* in-memory set of published slugs
  batch,            \* the batch being selected or dispatched
  limit,            \* the limit argument of the selection in progress
  bi,               \* position of the for loop in the batch
  cur,              \* the topic being dispatched
  outcome,          \* how the pipeline invocation ended
  img,              \* the image task of the topic being dispatched
  upload_success    \* result of upload_article_to_strapi

VARIABLES
  owed,             \* history: unpublished topics of the game active at the last
                    \* stop, not dispatched since
  lost              \* history: the last stop lost the state file and the topic caches

VARIABLES
  runs,             \* GraphBuilder objects constructed so far
  builder,          \* the GraphBuilder of the run in progress (0: none)
  rag,              \* the EphemeralRAG object of that GraphBuilder
  dirs,             \* the session directories under lancedb_sessions
  stage,            \* the pipeline stage that runs next
  att,              \* attempt number inside the stage's generation request
  rs,               \* the run state handed from stage to stage
  errs,             \* LLMClient._consecutive_errors
  iatt,             \* attempt number inside the image task's request
  fatalRaised,      \* history: times _record_failure raised
  fatalRun,         \* history: value of runs when it first raised
  compiled,         \* history: how the Compiler of the run in progress ended
  DEBUG,            \* settings.DEBUG
  call,             \* a node method called on its own: input and result
  held,             \* retrievers a caller holds: obtained in this session
                    \* ("cur") or before the last cleanup ("old")
  got,              \* the last retrieve call: its result, the retriever used
  ragPhase,         \* history: the last state-changing call on the store
  lastIndex,        \* history: the last index_chunks call of the session
  made              \* history: the session directory the run in progress made

\* the sink and the files outlive the process
worldVars == <<games, diskState, sink>>
\* the locals of run_daemon_mode
memVars == <<state, published_topics, published_slugs>>
loopVars == <<batch, limit, bi>>
runVars == <<outcome, img, upload_success>>
histVars == <<owed, lost>>
pipeVars ==
  <<runs, builder, rag, dirs, stage, att, rs, errs, iatt, fatalRaised,
    fatalRun, compiled, DEBUG, call, held, got, ragPhase, lastIndex, made>>

vars == <<pc, cur, worldVars, memVars, loopVars, runVars, histVars, pipeVars>>

NoTopic == "none"

\* A date is kept relative to the local date: "today", "earlier" (a past
\* day) or "" (never set). The daemon only compares a stored date for
\* equality with today's, so this keeps every distinction it can make.
Today == "today"

Aged(d) == IF d = "today" THEN "earlier" ELSE d

\* the state run_daemon_mode starts from when there is no state file
DefaultState ==
  [last_run_date |-> "", daily_count |-> 0, current_game_index |-> 0,
   pending_topics |-> <<>>]

NoStateFile == [exists |-> FALSE, content |-> DefaultState]

Take(s, n) == SubSeq(s, 1, IF Len(s) < n THEN Len(s) ELSE n)
Drop(s, n) == SubSeq(s, (IF Len(s) < n THEN Len(s) ELSE n) + 1, Len(s))

SeqToSet(s) == {s[i] : i \in 1..Len(s)}

\* index (from 0) of the game a topic belongs to
GameOf(t) == CHOOSE g \in 0..(Len(games) - 1) : t \in SeqToSet(games[g + 1])

\* ------------------------------------------------------------------------
\* The publishing sink, as strapi_tracker reads it
\* ------------------------------------------------------------------------

\* get_published_topics: the sink stores no topic field, so the title is read
SinkTopics == {NormTopic(a.title) : a \in sink}

\* get_published_slugs
SinkSlugs == {a.slug : a \in sink}

\* get_all_published_articles returns [] when the request raises
QueryTopics(ok) == IF ok THEN SinkTopics ELSE {}
QuerySlugs(ok) == IF ok THEN SinkSlugs ELSE {}

\* a slip: the slug sent to the sink is derived from the title
UploadedByTitle(t, title) ==
  {a \in sink : a.slug # get_safe_filename(title)}
    \cup {[title |-> title, slug |-> get_safe_filename(title)]}

\* upload_article_to_strapi: create, or update the article that has the slug
Uploaded(t, title) ==
  {a \in sink : a.slug # get_safe_filename(TopicText[t])}
    \cup {[title |-> title, slug |-> get_safe_filename(TopicText[t])]}


\* ------------------------------------------------------------------------
\* Batch selection
\* ------------------------------------------------------------------------

\* json.dump(state) into daemon_state.json
Saved(st) == [exists |-> TRUE, content |-> st]

RECURSIVE _filter_unwritten(_, _)
_filter_unwritten(topics, published) ==
  IF topics = <<>> THEN <<>>
  ELSE IF TopicText[Head(topics)] = <<>>
            \/ NormTopic(TopicText[Head(topics)]) \in published
       THEN _filter_unwritten(Tail(topics), published)
       ELSE <<Head(topics)>> \o _filter_unwritten(Tail(topics), published)

\* the topic cache of a game holds the backlog rows that contain its name
_build_pending_for_game(g, published) == _filter_unwritten(games[g + 1], published)

\* a slip: the index moves on although topics stay queued
DrainPendingEager(st, b, lim) ==
  [st EXCEPT !.pending_topics = Drop(st.pending_topics, lim - Len(b)),
             !.current_game_index = @ + 1]

\* the state after one iteration of the while loop, when pending is not empty
DrainPending(st, b, lim) ==
  LET needed == lim - Len(b)
      rest == Drop(st.pending_topics, needed)
  IN [st EXCEPT !.pending_topics = rest,
                !.current_game_index =
                   IF rest = <<>> THEN @ + 1 ELSE @]

\* a slip: the walk starts again at the first game every time
VisitGameRestarts(st, published) ==
  LET idx == 0
      pending == _build_pending_for_game(idx, published)
  IN IF pending = <<>>
     THEN [st EXCEPT !.current_game_index = idx + 1]
     ELSE [st EXCEPT !.current_game_index = idx, !.pending_topics = pending]

\* the state after one iteration of the while loop, when pending is empty
VisitGame(st, published) ==
  LET idx == IF st.current_game_index >= Len(games)
             THEN 0 ELSE st.current_game_index
      pending == _build_pending_for_game(idx, published)
  IN IF pending = <<>>
     THEN [st EXCEPT !.current_game_index = idx + 1]
     ELSE [st EXCEPT !.current_game_index = idx, !.pending_topics = pending]

\* ------------------------------------------------------------------------
\* The daemon loop (run_daemon_mode)
\* ------------------------------------------------------------------------

ImgDone == {"ok", "empty", "exc"}

\* startup: the queries to the sink, the game list, the state file
Boot ==
  /\ pc = "boot"
  /\ \E okT \in BOOLEAN, okS \in BOOLEAN :
       /\ published_topics' = QueryTopics(okT)
       /\ published_slugs' = QuerySlugs(okS)
  /\ state' = IF diskState.exists THEN diskState.content ELSE DefaultState
  /\ pc' = "loop"
  /\ UNCHANGED <<cur, worldVars, loopVars, runVars, histVars, pipeVars>>

\* check_strapi_connection failed: the daemon returns at once
BootNoSink ==
  /\ pc = "boot"
  /\ pc' = "exited"
  /\ UNCHANGED <<cur, worldVars, memVars, loopVars, runVars, histVars, pipeVars>>

\* a slip: the quota left is taken to be the whole daily limit
LoopTopFullQuota ==
  /\ pc = "loop"
  /\ LET reset == state.last_run_date # Today
         st == IF reset
               THEN [state EXCEPT !.last_run_date = Today, !.daily_count = 0]
               ELSE state
         remaining == DAILY_LIMIT
     IN /\ state' = st
        /\ diskState' = IF reset THEN Saved(st) ELSE diskState
        /\ IF reset
           THEN \E okT \in BOOLEAN, okS \in BOOLEAN :
                  /\ published_topics' = QueryTopics(okT)
                  /\ published_slugs' = QuerySlugs(okS)
           ELSE UNCHANGED <<published_topics, published_slugs>>
        /\ IF remaining <= 0
           THEN /\ pc' = "sleep_limit"
                /\ UNCHANGED <<batch, limit>>
           ELSE /\ pc' = "select"
                /\ batch' = <<>>
                /\ limit' = remaining
  /\ UNCHANGED <<cur, games, sink, bi, runVars, histVars, pipeVars>>

\* top of the while loop: the daily reset and the quota check
LoopTop ==
  /\ pc = "loop"
  /\ LET reset == state.last_run_date # Today
         st == IF reset
               THEN [state EXCEPT !.last_run_date = Today, !.daily_count = 0]
               ELSE state
         remaining == DAILY_LIMIT - st.daily_count
     IN /\ state' = st
        /\ diskState' = IF reset THEN Saved(st) ELSE diskState
        /\ IF reset
           THEN \E okT \in BOOLEAN, okS \in BOOLEAN :
                  /\ published_topics' = QueryTopics(okT)
                  /\ published_slugs' = QuerySlugs(okS)
           ELSE UNCHANGED <<published_topics, published_slugs>>
        /\ IF remaining <= 0
           THEN /\ pc' = "sleep_limit"
                /\ UNCHANGED <<batch, limit>>
           ELSE /\ pc' = "select"
                /\ batch' = <<>>
                /\ limit' = remaining
  /\ UNCHANGED <<cur, games, sink, bi, runVars, histVars, pipeVars>>

\* asyncio.sleep returns: after midnight for the quota sleep, after an hour
\* for the no-work sleep
WakeUp ==
  /\ pc \in {"sleep_limit", "sleep_nowork"}
  /\ pc = "sleep_limit" => state.last_run_date # Today
  /\ pc' = "loop"
  /\ UNCHANGED <<cur, worldVars, memVars, loopVars, runVars, histVars, pipeVars>>

\* one iteration of the while loop of _select_daily_batch
SelectStep ==
  /\ pc = "select"
  /\ Len(batch) < limit
  /\ IF state.pending_topics # <<>>
     THEN /\ batch' = batch \o Take(state.pending_topics, limit - Len(batch))
          /\ state' = DrainPending(state, batch, limit)
     ELSE /\ batch' = batch
          /\ state' = VisitGame(state, published_topics)
  /\ UNCHANGED <<pc, cur, worldVars, published_topics, published_slugs, limit,
                 bi, runVars, histVars, pipeVars>>

\* _select_daily_batch returns; an empty batch sends the daemon to sleep
SelectReturn ==
  /\ pc = "select"
  /\ Len(batch) >= limit
  /\ IF batch = <<>>
     THEN pc' = "sleep_nowork" /\ bi' = bi
     ELSE pc' = "dispatch" /\ bi' = 1
  /\ UNCHANGED <<cur, worldVars, memVars, batch, limit, runVars, histVars,
                 pipeVars>>

\* topic_str.lower().strip() and get_safe_filename(topic_str) of each topic
TopicKey == [t \in Topics |-> NormTopic(TopicText[t])]

TopicSlug == [t \in Topics |-> get_safe_filename(TopicText[t])]

\* a slip: the slug check is left out
AlreadyPublishedNoSlug(t, topics, slugs) ==
  \/ TopicText[t] = <<>>
  \/ TopicKey[t] \in topics

\* the published-set checks the for loop makes before it builds a pipeline
AlreadyPublished(t, topics, slugs) ==
  \/ TopicText[t] = <<>>
  \/ TopicKey[t] \in topics
  \/ TopicSlug[t] \in slugs

\* the sink holds the topic as published, by topic text or by slug
SinkHolds(t) ==
  \/ NormTopic(TopicText[t]) \in SinkTopics
  \/ get_safe_filename(TopicText[t]) \in SinkSlugs

\* the for loop takes the next topic of the batch: skip it or dispatch it
TakeTopic ==
  /\ pc = "dispatch"
  /\ bi <= Len(batch)
  /\ LET t == batch[bi]
     IN IF AlreadyPublished(t, published_topics, published_slugs)
        THEN /\ bi' = bi + 1
             /\ UNCHANGED <<pc, cur, owed>>
        ELSE /\ pc' = "build"
             /\ cur' = t
             /\ owed' = owed \ {t}
             /\ bi' = bi
  /\ UNCHANGED <<worldVars, memVars, batch, limit, runVars, lost, pipeVars>>

\* the for loop is through the batch
BatchDone ==
  /\ pc = "dispatch"
  /\ bi > Len(batch)
  /\ pc' = "loop"
  /\ UNCHANGED <<cur, worldVars, memVars, loopVars, runVars, histVars, pipeVars>>

\* topic t belongs to a later game than the topics still owed
PassedOver(t, ow) == \E o \in ow : GameOf(t) > GameOf(o)

\* a whole pipeline run in one step: GraphBuilder, image task, ainvoke
CoarseRun ==
  /\ pc = "build"
  /\ pc' = "ran"
  /\ \E o \in {"artifact", "noartifact", "exc", "fatal"} :
       /\ outcome' = o
       /\ \E i \in (IF o = "artifact" THEN ImgDone ELSE {"running"}) :
            img' = i
  /\ owed' = IF PassedOver(cur, owed) THEN {} ELSE owed
  /\ UNCHANGED <<cur, worldVars, memVars, loopVars, upload_success, lost,
                 pipeVars>>

\* a slip: the article is uploaded without awaiting the image task
PublishWithoutJoin ==
  /\ pc = "ran"
  /\ outcome = "artifact"
  /\ \E ok \in BOOLEAN, title \in {TopicText[cur], OtherTitle} :
       /\ upload_success' = ok
       /\ sink' = IF ok THEN Uploaded(cur, title) ELSE sink
       /\ published_topics' =
            IF ok THEN published_topics \cup {NormTopic(TopicText[cur])}
            ELSE published_topics
       /\ published_slugs' =
            IF ok THEN published_slugs \cup {get_safe_filename(TopicText[cur])}
            ELSE published_slugs
  /\ pc' = "uploaded"
  /\ UNCHANGED <<cur, games, diskState, state, loopVars, outcome, img,
                 histVars, pipeVars>>

\* final_path is set: the image task is awaited and the article uploaded
Publish ==
  /\ pc = "ran"
  /\ outcome = "artifact"
  /\ img \in ImgDone
  /\ \E ok \in BOOLEAN, title \in {TopicText[cur], OtherTitle} :
       /\ upload_success' = ok
       /\ sink' = IF ok THEN Uploaded(cur, title) ELSE sink
       /\ published_topics' =
            IF ok THEN published_topics \cup {NormTopic(TopicText[cur])}
            ELSE published_topics
       /\ published_slugs' =
            IF ok THEN published_slugs \cup {get_safe_filename(TopicText[cur])}
            ELSE published_slugs
  /\ pc' = "uploaded"
  /\ UNCHANGED <<cur, games, diskState, state, loopVars, outcome, img,
                 histVars, pipeVars>>

\* a statement between the await of the image task and the upload raises
\* (local_image_path.exists() on a directory that cannot be read): control
\* passes to the except branch
PublishRaises ==
  /\ pc = "ran"
  /\ outcome = "artifact"
  /\ img \in ImgDone
  /\ outcome' = "exc"
  /\ UNCHANGED <<pc, cur, worldVars, memVars, loopVars, img, upload_success,
                 histVars, pipeVars>>

\* daily_count is incremented and the state saved; on to the next topic
CountSave ==
  /\ pc = "uploaded"
  /\ state' = [state EXCEPT !.daily_count = @ + 1]
  /\ diskState' = Saved(state')
  /\ bi' = bi + 1
  /\ pc' = "dispatch"
  /\ outcome' = "none"
  /\ img' = "none"
  /\ upload_success' = FALSE
  /\ UNCHANGED <<cur, games, sink, published_topics, published_slugs, batch,
                 limit, histVars, pipeVars>>

\* a slip: the task is left to run
CancelImageNever(i) == i

\* image_task.cancel() unless image_task.done()
CancelImage(i) == IF i \in ImgDone THEN i ELSE "cancelled"

\* the run returned no final_article_path
NoArtifact ==
  /\ pc = "ran"
  /\ outcome = "noartifact"
  /\ img' = CancelImage(img)
  /\ outcome' = "none"
  /\ bi' = bi + 1
  /\ pc' = "dispatch"
  /\ UNCHANGED <<cur, worldVars, memVars, batch, limit, upload_success,
                 histVars, pipeVars>>

\* what the process holds in memory is gone when it ends
Gone ==
  /\ state' = DefaultState
  /\ published_topics' = {}
  /\ published_slugs' = {}
  /\ batch' = <<>>
  /\ limit' = 0
  /\ bi' = 1
  /\ outcome' = "none"
  /\ img' = "none"
  /\ upload_success' = FALSE

\* a slip: the except branch returns whatever the exception
OnExceptionStops ==
  /\ pc = "ran"
  /\ outcome \in {"exc", "fatal"}
  /\ pc' = "exited"
  /\ Gone
  /\ UNCHANGED <<cur, worldVars, histVars, pipeVars>>

\* the except branch: only the consecutive-failures error stops the daemon
OnException ==
  /\ pc = "ran"
  /\ outcome \in {"exc", "fatal"}
  /\ IF outcome = "fatal"
     THEN /\ pc' = "exited"
          /\ Gone
     ELSE /\ pc' = "dispatch"
          /\ img' = CancelImage(img)
          /\ outcome' = "none"
          /\ bi' = bi + 1
          /\ UNCHANGED <<memVars, batch, limit, upload_success>>
  /\ UNCHANGED <<cur, worldVars, histVars, pipeVars>>

\* ------------------------------------------------------------------------
\* The environment of the scheduler: the clock, and stops of the process
\* ------------------------------------------------------------------------

\* midnight passes: every stored date that was today's is now a past day
NextDay ==
  /\ state' = [state EXCEPT !.last_run_date = Aged(@)]
  /\ diskState' = [diskState EXCEPT !.content.last_run_date = Aged(@)]
  /\ state.last_run_date = Today \/ diskState.content.last_run_date = Today
  /\ UNCHANGED <<pc, cur, games, sink, published_topics, published_slugs,
                 loopVars, runVars, histVars, pipeVars>>

\* topics of game g the sink does not hold
Unpublished(g) == {t \in SeqToSet(games[g + 1]) : ~SinkHolds(t)}

\* the process stops anywhere and is started again; the state file and the
\* topic caches survive or are lost
Crash ==
  /\ pc # "boot"
  /\ pc' = "boot"
  /\ \E lose \in BOOLEAN :
       /\ diskState' = IF lose THEN NoStateFile ELSE diskState
       /\ lost' = lose
  /\ Gone
  /\ cur' = NoTopic
  /\ owed' = IF cur # NoTopic THEN Unpublished(GameOf(cur)) ELSE {}
  /\ UNCHANGED <<games, sink, pipeVars>>

\* ------------------------------------------------------------------------
\* The scheduler specification
\* ------------------------------------------------------------------------

\* None, for a path and for a table (a table is named by its directory)
NoPath == <<>>

\* EphemeralRAG.__init__
\* (rows: the texts of the rows of the table)
NoRag == [path |-> NoPath, db |-> FALSE, tbl |-> NoPath, rows |-> {}]

\* initial_state of a run; nsec is the number of sections of the outline,
\* final the name of the article file (final_article_path)
NoRun == [queries |-> FALSE, results |-> FALSE, passport |-> "unset",
          outline |-> "unset", nsec |-> 0, chunks |-> FALSE,
          retriever |-> FALSE, sections |-> 0, final |-> NoPath]

NoCall == [res |-> "none", via |-> "none", texts |-> {}]

\* no index_chunks call has returned in this session
NoIndex == [called |-> FALSE, chunks |-> {}]

\* no node method is being called on its own
NoNodeCall == [op |-> "none", arg |-> <<>>, out |-> <<>>, done |-> TRUE]

\* everything but the variables of the selection
InitRest ==
  /\ diskState = NoStateFile
  /\ sink = {}
  /\ published_slugs = {}
  /\ bi = 1
  /\ cur = NoTopic
  /\ outcome = "none"
  /\ img = "none"
  /\ upload_success = FALSE
  /\ owed = {}
  /\ lost = FALSE
  /\ runs = 0
  /\ builder = 0
  /\ rag = NoRag
  /\ dirs = {}
  /\ stage = "idle"
  /\ att = 0
  /\ rs = NoRun
  /\ errs = 0
  /\ iatt = 0
  /\ fatalRaised = 0
  /\ fatalRun = 0
  /\ compiled = "no"
  /\ held = {}
  /\ got = NoCall
  /\ ragPhase = "new"
  /\ lastIndex = NoIndex
  /\ made = NoPath

InitCommon ==
  /\ pc = "boot"
  /\ state = DefaultState
  /\ published_topics = {}
  /\ batch = <<>>
  /\ limit = 0
  /\ InitRest

Init ==
  InitCommon /\ games = FullCatalog /\ DEBUG = FALSE /\ call = NoNodeCall

Next ==
  \/ Boot
  \/ BootNoSink
  \/ LoopTop
  \/ WakeUp
  \/ SelectStep
  \/ SelectReturn
  \/ TakeTopic
  \/ BatchDone
  \/ CoarseRun
  \/ Publish
  \/ PublishRaises
  \/ CountSave
  \/ NoArtifact
  \/ OnException
  \/ NextDay
  \/ Crash

Spec == Init /\ [][Next]_vars

\* ------------------------------------------------------------------------
\* The retrieval store (EphemeralRAG)
\* ------------------------------------------------------------------------

\* str.isalnum over the alphabet of the model
IsAlnum(c) == ~IsSpace(c) /\ c \notin {"_", "-", "!"}

RECURSIVE OnlyAlnum(_)
OnlyAlnum(s) ==
  IF s = <<>> THEN <<>>
  ELSE IF IsAlnum(Head(s)) THEN <<Head(s)>> \o OnlyAlnum(Tail(s))
       ELSE OnlyAlnum(Tail(s))

MaxIdLen == 50

GenericIndex ==
  <<"g", "e", "n", "e", "r", "i", "c", "_", "i", "n", "d", "e", "x">>

\* the session id ScraperIndexerNode.run derives from the topic
SafeIndexName(topic) ==
  LET n == Truncate(LowerStr(OnlyAlnum(topic)), MaxIdLen)
  IN IF n = <<>> THEN GenericIndex ELSE n

\* the directory name init_session derives from the session id
SafeId(session_id) == Truncate(OnlyAlnum(session_id), MaxIdLen)

\* the chunk lists of the model: the first n texts of a scrape, for two
\* scrapes with no text in common
MaxChunks == 6

RagChunks == (1 .. 2) \X (1 .. MaxChunks)

ChunkLists ==
  {{}} \cup {{<<b, i>> : i \in 1 .. n} : b \in 1 .. 2, n \in 1 .. MaxChunks}

\* all_chunks of a scrape that gave chunks
ScrapedChunks == {<<1, 1>>}

\* the default limit of as_retriever
RetrieveLimit == 5

\* init_session: a fresh directory, a connection, no table
init_session(r, d, session_id) ==
  [rag |-> [path |-> SafeId(session_id), db |-> TRUE, tbl |-> NoPath,
            rows |-> {}],
   dirs |-> (d \ {SafeId(session_id)}) \cup {SafeId(session_id)}]

\* index_chunks raises when there is no connection to ask for table names
IndexRaises(r, chunks) == chunks # {} /\ ~r.db

\* index_chunks: nothing for no chunks, else the table of the session is
\* dropped and created again from the chunks
index_chunks(r, d, chunks) ==
  IF chunks = {} \/ IndexRaises(r, chunks)
  THEN [rag |-> r, dirs |-> d]
  ELSE [rag |-> [r EXCEPT !.tbl = r.path, !.rows = chunks], dirs |-> d]

\* what a call of the function as_retriever returned can give: [] without a
\* table; the texts or [] with one; with a table whose directory is gone the
\* search fails, inside the try ([]) or in the truth test before it
retrieve(r, d) ==
  IF r.tbl = NoPath THEN {"empty"}
  ELSE IF r.tbl \in d THEN {"chunks", "empty"}
       ELSE {"empty", "error"}

\* tbl.search(query_vec).limit(k): the k nearest rows, which ones depends
\* on the query
search(r, k) ==
  {s \in SUBSET r.rows :
     Cardinality(s) = IF Cardinality(r.rows) < k
                      THEN Cardinality(r.rows) ELSE k}

\* a slip: the table outlives the cleanup
cleanupKeepsTable(r, d, force, debug, rmOk) ==
  [rag |-> [path |-> NoPath, db |-> FALSE, tbl |-> r.tbl, rows |-> r.rows],
   dirs |-> IF r.path # NoPath /\ r.path \in d /\ ~(debug /\ ~force) /\ rmOk
            THEN d \ {r.path} ELSE d]

\* cleanup: table and connection dropped; the directory removed unless DEBUG
\* keeps it or rmtree fails (rmOk)
cleanup(r, d, force, debug, rmOk) ==
  [rag |-> [path |-> NoPath, db |-> FALSE, tbl |-> NoPath, rows |-> {}],
   dirs |-> IF r.path # NoPath /\ r.path \in d /\ ~(debug /\ ~force) /\ rmOk
            THEN d \ {r.path} ELSE d]

\* ------------------------------------------------------------------------
\* The retrieval store driven through its methods, in any order
\* ------------------------------------------------------------------------

restVars ==
  <<pc, cur, worldVars, memVars, loopVars, runVars, histVars, runs, builder,
    stage, att, rs, errs, iatt, fatalRaised, fatalRun, compiled, DEBUG,
    call, made>>

RagInitSession ==
  /\ \E t \in Topics :
       LET n == init_session(rag, dirs, SafeIndexName(TopicText[t]))
       IN rag' = n.rag /\ dirs' = n.dirs
  /\ ragPhase' = "inited"
  /\ lastIndex' = NoIndex
  /\ got' = NoCall
  /\ UNCHANGED <<held, restVars>>

RagIndexChunks ==
  /\ \E chunks \in ChunkLists :
       LET n == index_chunks(rag, dirs, chunks)
       IN /\ rag' = n.rag
          /\ dirs' = n.dirs
          /\ ragPhase' = IF n.rag.tbl # rag.tbl THEN "indexed" ELSE ragPhase
          /\ lastIndex' = IF IndexRaises(rag, chunks) THEN lastIndex
                          ELSE [called |-> TRUE, chunks |-> chunks]
  /\ got' = NoCall
  /\ UNCHANGED <<held, restVars>>

RagAsRetriever ==
  /\ held' = held \cup {"cur"}
  /\ got' = NoCall
  /\ UNCHANGED <<rag, dirs, ragPhase, lastIndex, restVars>>

RagRetrieve ==
  /\ \E v \in held, res \in retrieve(rag, dirs) :
       \E texts \in IF res = "chunks" THEN search(rag, RetrieveLimit)
                     ELSE {{}} :
         got' = [res |-> res, via |-> v, texts |-> texts]
  /\ UNCHANGED <<rag, dirs, held, ragPhase, lastIndex, restVars>>

RagCleanup ==
  /\ \E force \in BOOLEAN, rmOk \in BOOLEAN :
       LET n == cleanup(rag, dirs, force, DEBUG, rmOk)
       IN rag' = n.rag /\ dirs' = n.dirs
  /\ held' = IF held = {} THEN {} ELSE {"old"}
  /\ ragPhase' = "cleaned"
  /\ lastIndex' = NoIndex
  /\ got' = NoCall
  /\ UNCHANGED restVars

RagInit ==
  /\ InitCommon
  /\ games = SmallCatalog
  /\ DEBUG \in BOOLEAN
  /\ call = NoNodeCall

RagNext ==
  \/ RagInitSession
  \/ RagIndexChunks
  \/ RagAsRetriever
  \/ RagRetrieve
  \/ RagCleanup

RagSpec == RagInit /\ [][RagNext]_vars

\* ------------------------------------------------------------------------
\* The generation client (LLMClient)
\* ------------------------------------------------------------------------

\* the bound of the pipeline specification: GraphBuilder objects constructed
MaxRuns == 3

\* the bound on the sections of an outline
MaxSections == 1

\* _record_failure raises once the counter has reached this
FailLimit == 10

\* attempts of one async_generate call
MaxAttempts == 5

\* a pipeline is between ainvoke and its return
Running == pc \in {"running", "prod_running"}

\* ainvoke returns or raises: the caller goes on with outcome o
RunEnds(o) ==
  /\ pc' = IF pc = "running" THEN "ran" ELSE "prod_ran"
  /\ outcome' = o
  /\ stage' = "idle"
  /\ att' = 0

\* _record_failure raises the RuntimeError that is meant to stop the daemon
FatalRaised ==
  /\ fatalRaised' = fatalRaised + 1
  /\ fatalRun' = IF fatalRaised = 0 THEN runs ELSE fatalRun

\* what no step of a pipeline or of the image task changes
stepFrame ==
  <<cur, worldVars, memVars, loopVars, upload_success, histVars, runs,
    builder, DEBUG, call, held, got, ragPhase, lastIndex>>

\* a slip: a reply leaves the failure counter as it is
LlmReturnsKeepsCount(s, text) ==
  /\ Running
  /\ stage = s
  /\ IF text
     THEN errs' = errs
     ELSE /\ errs + 1 < FailLimit
          /\ att + 1 >= MaxAttempts
          /\ errs' = errs + 1
  /\ UNCHANGED <<pc, outcome, fatalRaised, fatalRun>>
  /\ UNCHANGED <<stepFrame, img, iatt, rag, dirs, compiled, made>>

\* an attempt of the async_generate call of stage s after which the call
\* returns: a reply resets the counter and its text is returned; the last
\* attempt fails below the limit and "" is returned
LlmReturns(s, text) ==
  /\ Running
  /\ stage = s
  /\ IF text
     THEN errs' = 0
     ELSE /\ errs + 1 < FailLimit
          /\ att + 1 >= MaxAttempts
          /\ errs' = errs + 1
  /\ UNCHANGED <<pc, outcome, fatalRaised, fatalRun>>
  /\ UNCHANGED <<stepFrame, img, iatt, rag, dirs, compiled, made>>

\* a failed attempt after which the call does not return: _record_failure
\* raises at the limit, else the call sleeps and tries again
LlmFails(s) ==
  /\ Running
  /\ stage = s
  /\ errs' = errs + 1
  /\ IF errs + 1 >= FailLimit
     THEN /\ FatalRaised
          /\ RunEnds("fatal")
     ELSE /\ att + 1 < MaxAttempts
          /\ att' = att + 1
          /\ UNCHANGED <<pc, outcome, fatalRaised, fatalRun, stage>>
  /\ UNCHANGED <<rs, stepFrame, img, iatt, rag, dirs, compiled, made>>

\* ------------------------------------------------------------------------
\* The pipeline, stage by stage (GraphBuilder.build and the run_* wrappers)
\* ------------------------------------------------------------------------

\* GraphBuilder.__init__: new nodes, and a new EphemeralRAG inside the
\* scraper-indexer node
NewGraphShared ==
  /\ runs' = runs + 1
  /\ builder' = IF builder = 0 THEN 1 ELSE builder
  /\ rag' = rag

NewGraph ==
  /\ runs' = runs + 1
  /\ builder' = runs + 1
  /\ rag' = NoRag

\* the daemon constructs the graph and the initial state, starts the image
\* task and invokes the graph
BuildGraph ==
  /\ pc = "build"
  /\ runs < MaxRuns
  /\ NewGraph
  /\ rs' = NoRun
  /\ img' = "running"
  /\ iatt' = 0
  /\ stage' = "db"
  /\ att' = 0
  /\ compiled' = "no"
  /\ made' = NoPath
  /\ pc' = "running"
  /\ UNCHANGED <<cur, worldVars, memVars, loopVars, outcome, upload_success,
                 histVars, dirs, errs, fatalRaised, fatalRun, DEBUG, call,
                 held, got, ragPhase, lastIndex>>

\* run_local_db_check: the specs found do not steer the run
LocalDbCheck ==
  /\ Running
  /\ stage = "db"
  /\ stage' = "qgen"
  /\ UNCHANGED <<pc, outcome, stepFrame, img, iatt, rag, dirs, att, rs, errs,
                 fatalRaised, fatalRun, compiled, made>>

\* QueryGeneratorNode.run: the parsed list, or the three fallback queries
QueryGenReturns(text) ==
  /\ \E q \in (IF text THEN BOOLEAN ELSE {TRUE}) :
       rs' = [rs EXCEPT !.queries = q]
  /\ stage' = "search"
  /\ att' = 0

QueryGenerator ==
  \/ \E text \in BOOLEAN : LlmReturns("qgen", text) /\ QueryGenReturns(text)
  \/ LlmFails("qgen")

\* a slip: without queries the run goes straight to the compiler
BroadSearchShortCircuits ==
  /\ Running
  /\ stage = "search"
  /\ \E r \in (IF rs.queries THEN BOOLEAN ELSE {FALSE}) :
       rs' = [rs EXCEPT !.results = r]
  /\ stage' = IF rs.queries THEN "fv" ELSE "compile"
  /\ UNCHANGED <<pc, outcome, stepFrame, img, iatt, rag, dirs, att, errs,
                 fatalRaised, fatalRun, compiled, made>>

\* run_broad_search: no queries, no results
BroadSearch ==
  /\ Running
  /\ stage = "search"
  /\ \E r \in (IF rs.queries THEN BOOLEAN ELSE {FALSE}) :
       rs' = [rs EXCEPT !.results = r]
  /\ stage' = "fv"
  /\ UNCHANGED <<pc, outcome, stepFrame, img, iatt, rag, dirs, att, errs,
                 fatalRaised, fatalRun, compiled, made>>

\* FactValidatorNode.run: a passport whatever the reply
FactValidatorReturns(text) ==
  /\ rs' = [rs EXCEPT !.passport = "set"]
  /\ stage' = "strat"
  /\ att' = 0

FactValidator ==
  \/ \E text \in BOOLEAN : LlmReturns("fv", text) /\ FactValidatorReturns(text)
  \/ LlmFails("fv")

\* a slip: the wrapper hands back a passport key as well, and clears it
StrategistReturnsClearsPassport(text) ==
  /\ \E o \in (IF text THEN {"none", "ok"} ELSE {"none"}) :
       \E n \in (IF o = "ok" THEN 0..MaxSections ELSE {0}) :
         rs' = [rs EXCEPT !.outline = o, !.nsec = n, !.passport = "unset"]
  /\ stage' = "index"
  /\ att' = 0

\* StrategistNode.run: an outline, or None when the reply does not parse
StrategistReturns(text) ==
  /\ \E o \in (IF text THEN {"none", "ok"} ELSE {"none"}) :
       \E n \in (IF o = "ok" THEN 0..MaxSections ELSE {0}) :
         rs' = [rs EXCEPT !.outline = o, !.nsec = n]
  /\ stage' = "index"
  /\ att' = 0

Strategist ==
  \/ \E text \in BOOLEAN : LlmReturns("strat", text) /\ StrategistReturns(text)
  \/ LlmFails("strat")

\* ScraperIndexerNode.run: init_session always; chunks are indexed when the
\* scrape gave any; index_chunks may raise
ScraperIndexer ==
  /\ Running
  /\ stage = "index"
  /\ LET n == init_session(rag, dirs, SafeIndexName(TopicText[cur]))
     IN /\ made' = n.rag.path
        /\ \E o \in (IF rs.results THEN {"nochunks", "chunks", "raise"}
                     ELSE {"nourls"}) :
             CASE o = "chunks" ->
                    /\ rag' = index_chunks(n.rag, n.dirs, ScrapedChunks).rag
                    /\ dirs' = index_chunks(n.rag, n.dirs, ScrapedChunks).dirs
                    /\ rs' = [rs EXCEPT !.chunks = TRUE, !.retriever = TRUE]
                    /\ stage' = "write"
                    /\ UNCHANGED <<pc, outcome, att>>
               [] o = "raise" ->
                    /\ rag' = n.rag
                    /\ dirs' = n.dirs
                    /\ RunEnds("exc")
                    /\ UNCHANGED rs
               [] OTHER ->
                    /\ rag' = n.rag
                    /\ dirs' = n.dirs
                    /\ rs' = [rs EXCEPT !.chunks = FALSE, !.retriever = FALSE]
                    /\ stage' = "write"
                    /\ UNCHANGED <<pc, outcome, att>>
  /\ UNCHANGED <<stepFrame, img, iatt, errs, fatalRaised, fatalRun, compiled>>

\* write_section: the text of one section, "" included
SectionReturns(text) ==
  /\ rs' = [rs EXCEPT !.sections = @ + 1]
  /\ stage' = IF rs.sections + 1 >= rs.nsec THEN "compile" ELSE "write"
  /\ att' = 0

\* a slip: a section is requested whether or not there is an outline
SectionWriterWithoutOutline ==
  \/ /\ rs.sections < 1
     /\ \/ \E text \in BOOLEAN :
             LlmReturns("write", text) /\ SectionReturns(text)
        \/ LlmFails("write")
  \/ /\ Running
     /\ stage = "write"
     /\ rs.outline # "ok" \/ rs.nsec = 0
     /\ stage' = "compile"
     /\ UNCHANGED <<pc, outcome, stepFrame, img, iatt, rag, dirs, att, rs,
                    errs, fatalRaised, fatalRun, compiled, made>>

\* run_section_writer: nothing to write without an outline; else a request
\* per section of the outline (retrieve_context changes nothing)
SectionWriter ==
  \/ /\ rs.outline = "ok"
     /\ rs.sections < rs.nsec
     /\ \/ \E text \in BOOLEAN :
             LlmReturns("write", text) /\ SectionReturns(text)
        \/ LlmFails("write")
  \/ /\ Running
     /\ stage = "write"
     /\ rs.outline # "ok" \/ rs.nsec = 0
     /\ stage' = "compile"
     /\ UNCHANGED <<pc, outcome, stepFrame, img, iatt, rag, dirs, att, rs,
                    errs, fatalRaised, fatalRun, compiled, made>>

\* CompilerNode.run: returns early without an outline or without sections,
\* and when the file cannot be written; cleans the store up after the save
Compiler ==
  /\ Running
  /\ stage = "compile"
  /\ IF rs.outline # "ok" \/ rs.sections = 0
     THEN /\ compiled' = "early"
          /\ RunEnds("noartifact")
          /\ UNCHANGED <<rag, dirs, rs>>
     ELSE \E wrote \in BOOLEAN, rmOk \in BOOLEAN :
            IF wrote
            THEN /\ rag' = cleanup(rag, dirs, TRUE, DEBUG, rmOk).rag
                 /\ dirs' = cleanup(rag, dirs, TRUE, DEBUG, rmOk).dirs
                 /\ compiled' = "cleaned"
                 /\ rs' = [rs EXCEPT
                            !.final = get_safe_filename(TopicText[cur])]
                 /\ RunEnds("artifact")
            ELSE /\ compiled' = "writefail"
                 /\ RunEnds("noartifact")
                 /\ UNCHANGED <<rag, dirs, rs>>
  /\ UNCHANGED <<stepFrame, img, iatt, errs, fatalRaised, fatalRun, made>>

\* generate_article_cover_parallel, one step of it: the cover file is there
\* already, or one attempt of its async_generate call followed by the image
\* request. It runs while the graph runs and while the daemon awaits it.
ImageTask ==
  /\ img = "running"
  /\ pc = "running" \/ (pc = "ran" /\ outcome = "artifact")
  /\ \/ /\ iatt = 0
        /\ img' = "ok"
        /\ UNCHANGED <<iatt, errs, fatalRaised, fatalRun>>
     \/ /\ errs' = 0
        /\ \E r \in {"ok", "empty"} : img' = r
        /\ iatt' = 0
        /\ UNCHANGED <<fatalRaised, fatalRun>>
     \/ /\ errs' = errs + 1
        /\ IF errs + 1 >= FailLimit
           THEN /\ FatalRaised
                /\ img' = "exc"
                /\ iatt' = 0
           ELSE /\ UNCHANGED <<fatalRaised, fatalRun>>
                /\ IF iatt + 1 < MaxAttempts
                   THEN iatt' = iatt + 1 /\ img' = img
                   ELSE iatt' = 0 /\ img' = "empty"
  /\ UNCHANGED <<pc, outcome, stepFrame, rag, dirs, stage, att, rs, compiled,
                 made>>

\* the edges of the graph, entry point first
Edges ==
  {<<"db", "qgen">>, <<"qgen", "search">>, <<"search", "fv">>,
   <<"fv", "strat">>, <<"strat", "index">>, <<"index", "write">>,
   <<"write", "compile">>}

\* the stage whose wrapper returns each key of the run state
WrittenBy ==
  [queries |-> "qgen", results |-> "search", passport |-> "fv",
   outline |-> "strat", nsec |-> "strat", chunks |-> "index",
   retriever |-> "index", sections |-> "write", final |-> "compile"]

\* ------------------------------------------------------------------------
\* Production mode (run_production_phase)
\* ------------------------------------------------------------------------

\* main starts production mode: the topics of this invocation are picked
StartProduction ==
  /\ pc = "boot"
  /\ \E b \in {<<"a", "b">>, <<"b", "a">>} : batch' = b
  /\ bi' = 1
  /\ pc' = "prod"
  /\ UNCHANGED <<cur, worldVars, memVars, limit, runVars, histVars, pipeVars>>

\* the for loop: a graph per article, then the file check, then ainvoke
ProdTake ==
  /\ pc = "prod"
  /\ bi <= Len(batch)
  /\ runs < MaxRuns
  /\ NewGraph
  /\ \E exists \in BOOLEAN :
       IF exists
       THEN /\ bi' = bi + 1
            /\ UNCHANGED <<pc, cur, rs, stage, compiled, made>>
       ELSE /\ cur' = batch[bi]
            /\ rs' = NoRun
            /\ stage' = "db"
            /\ compiled' = "no"
            /\ made' = NoPath
            /\ pc' = "prod_running"
            /\ bi' = bi
  /\ UNCHANGED <<worldVars, memVars, batch, limit, runVars, histVars, dirs,
                 att, errs, iatt, fatalRaised, fatalRun, DEBUG, call, held,
                 got, ragPhase, lastIndex>>

\* the result or the exception is logged; on to the next article
ProdEnd ==
  /\ pc = "prod_ran"
  /\ outcome' = "none"
  /\ bi' = bi + 1
  /\ pc' = "prod"
  /\ UNCHANGED <<cur, worldVars, memVars, batch, limit, img, upload_success,
                 histVars, pipeVars>>

ProdDone ==
  /\ pc = "prod"
  /\ bi > Len(batch)
  /\ pc' = "exited"
  /\ UNCHANGED <<cur, worldVars, memVars, loopVars, runVars, histVars,
                 pipeVars>>

\* ------------------------------------------------------------------------
\* The pipeline specification
\* ------------------------------------------------------------------------

PipeInit ==
  InitCommon /\ games = SmallCatalog /\ DEBUG \in BOOLEAN /\ call = NoNodeCall

PipeNext ==
  \/ Boot
  \/ BootNoSink
  \/ LoopTop
  \/ SelectStep
  \/ SelectReturn
  \/ TakeTopic
  \/ BatchDone
  \/ BuildGraph
  \/ LocalDbCheck
  \/ QueryGenerator
  \/ BroadSearch
  \/ FactValidator
  \/ Strategist
  \/ ScraperIndexer
  \/ SectionWriter
  \/ Compiler
  \/ ImageTask
  \/ Publish
  \/ PublishRaises
  \/ CountSave
  \/ NoArtifact
  \/ OnException
  \/ StartProduction
  \/ ProdTake
  \/ ProdEnd
  \/ ProdDone

PipeSpec == PipeInit /\ [][PipeNext]_vars

\* ------------------------------------------------------------------------
\* The nodes as functions of the reply of the generation service
\* ------------------------------------------------------------------------

\* the values of match_status and of selected_writing_strategy
Statuses ==
  {"EXACT_MATCH", "FEATURE_MISMATCH", "NON_EXISTENT_GAME",
   "LOGICAL_CONTRADICTION", "GENERIC_QUERY"}

Strategies ==
  {"DIRECT_REVIEW", "MYTH_BUSTER", "GENRE_OVERVIEW", "STRATEGY_GUIDE",
   "GENERIC_GUIDE"}

\* the decision matrix the prompt of the fact validator gives the service
StrategyOf ==
  [s \in Statuses |->
     CASE s = "EXACT_MATCH" -> "DIRECT_REVIEW"
       [] s = "FEATURE_MISMATCH" -> "MYTH_BUSTER"
       [] s = "NON_EXISTENT_GAME" -> "GENRE_OVERVIEW"
       [] s = "LOGICAL_CONTRADICTION" -> "STRATEGY_GUIDE"
       [] s = "GENERIC_QUERY" -> "GENERIC_GUIDE"]

\* a key of a JSON object is absent
Absent == "absent"

\* the replies of the service, as the fact validator reads them: text that
\* does not parse ("empty", "nonjson"), JSON that is no object ("array",
\* "scalar"), and objects: each sub-record missing, not an object or an
\* object, the decision with any subset of its two keys and any value
SubForms == {"missing", "notdict", "dict"}

DecisionsOfReply ==
  {[form |-> f, match_status |-> Absent, selected_writing_strategy |-> Absent]
     : f \in {"missing", "notdict"}}
  \cup [form : {"dict"},
        match_status : Statuses \cup {Absent, "OTHER"},
        selected_writing_strategy : Strategies \cup {Absent, "OTHER"}]

NoDecision ==
  [form |-> "missing", match_status |-> Absent,
   selected_writing_strategy |-> Absent]

\* the RTP values of the model, with their order
RtpValues == {"95.2%", "96.8%", "97.0%"}

RtpOf ==
  [v \in RtpValues |->
     CASE v = "95.2%" -> 952
       [] v = "96.8%" -> 968
       [] v = "97.0%" -> 970]

\* rtp_single_value is a key of technical_specs: it is there, with any
\* value, or not, when technical_specs is an object
FvReplies ==
  {r \in [kind : {"object"}, analysis : SubForms,
          decision : DecisionsOfReply, facts : SubForms,
          technical_specs : SubForms,
          rtp_single_value : RtpValues \cup {Absent}] :
     r.technical_specs # "dict" => r.rtp_single_value = Absent}
  \cup {[kind |-> k, analysis |-> "missing", decision |-> NoDecision,
         facts |-> "missing", technical_specs |-> "missing",
         rtp_single_value |-> Absent]
          : k \in {"empty", "nonjson", "array", "scalar"}}

\* the search results passed to the fact validator: each snippet reports an
\* RTP value or none; the empty set is no search results
Snippets == {"none", "95.2%", "96.8%"}

SearchResults == SUBSET Snippets

\* the decision of the defaults table, and of the fallback passport
DefaultDecision ==
  [form |-> "default", match_status |-> "GENERIC_QUERY",
   selected_writing_strategy |-> "GENERIC_GUIDE"]

\* the passport of the except branch
FallbackPassport ==
  [analysis |-> "default", decision |-> DefaultDecision, facts |-> "default",
   technical_specs |-> "default", rtp_single_value |-> "Unknown",
   raised |-> "none"]

\* what the try block raises on a reply: json.loads on text that is no JSON,
\* the repair loop (`key not in passport`, `passport[key] = ...`) on a value
\* that is no object
FvError(reply) ==
  CASE reply.kind \in {"empty", "nonjson"} -> "JSONDecodeError"
    [] reply.kind \in {"array", "scalar"} -> "TypeError"
    [] OTHER -> "none"

\* except (json.JSONDecodeError, Exception)
FvCaught(err) == err \in {"JSONDecodeError", "TypeError"}

\* the loop over the defaults: a key that is missing or no object gets the
\* default
RepairSub(v) == IF v = "dict" THEN "dict" ELSE "default"

\* a slip: a decision of the reply is kept as it came
RepairDecisionKeepsGaps(d) ==
  IF d.form # "dict" THEN DefaultDecision ELSE d

\* the decision after the loop over the defaults and the two sub-key checks
RepairDecision(d) ==
  IF d.form # "dict" THEN DefaultDecision
  ELSE [d EXCEPT
          !.match_status = IF @ = Absent THEN "GENERIC_QUERY" ELSE @,
          !.selected_writing_strategy =
             IF @ = Absent THEN "GENERIC_GUIDE" ELSE @]

\* FactValidatorNode.run from the reply on: the repaired passport, or the
\* fallback passport of the except branch
FactValidatorRun(reply) ==
  IF FvError(reply) # "none"
  THEN IF FvCaught(FvError(reply)) THEN FallbackPassport
       ELSE [FallbackPassport EXCEPT !.raised = FvError(reply)]
  ELSE [analysis |-> RepairSub(reply.analysis),
        decision |-> RepairDecision(reply.decision),
        facts |-> RepairSub(reply.facts),
        technical_specs |-> RepairSub(reply.technical_specs),
        rtp_single_value |->
          IF reply.technical_specs = "dict" THEN reply.rtp_single_value
          ELSE "Unknown",
        raised |-> "none"]

\* FactValidatorNode.run(topic, search_results): the search results go into
\* the prompt and nowhere else
FactValidatorNodeRun(search_results, reply) == FactValidatorRun(reply)

\* the bound on the length of a list in a reply to the query generator
MaxQueries == 6

\* the queries of the except branch
FallbackQueries == 3

\* the replies of the service, as the query generator reads them, n being
\* the length of the list they carry: text that is no JSON ("nonjson"); an
\* object with a "queries" key whose value is a list ("queries") or is not
\* ("queries_other"); a list ("list"); an object without the key whose first
\* value is a list ("first_list") or is not ("first_other"); the empty
\* object ("empty_object"); a value that is neither, false in a truth test
\* ("falsy": null, 0, "") or true ("truthy")
QgReplies ==
  [kind : {"queries", "list", "first_list"}, n : 0..MaxQueries]
  \cup [kind : {"nonjson", "queries_other", "first_other", "empty_object",
                "falsy", "truthy"},
        n : {0}]

\* QueryGeneratorNode.run from the reply on: what it returns (a list of n
\* items, or a value that is no list) or the exception it raises
QueryGeneratorRun(reply) ==
  CASE reply.kind = "nonjson" ->
         [kind |-> "list", n |-> FallbackQueries, raised |-> "none"]
    [] reply.kind \in {"queries", "list", "first_list"} ->
         [kind |-> "list", n |-> reply.n, raised |-> "none"]
    [] reply.kind \in {"queries_other", "first_other"} ->
         [kind |-> "other", n |-> 0, raised |-> "none"]
    [] reply.kind \in {"empty_object", "falsy"} ->
         [kind |-> "list", n |-> 1, raised |-> "none"]
    [] reply.kind = "truthy" ->
         [kind |-> "none", n |-> 0, raised |-> "AttributeError"]

\* the bound on the pieces a chunk of the model is made of
MaxSegs == 4

\* the pieces: a run of plain text, a bracketed note such as "[1]", a
\* markdown link "[..](..)", a line break, a critical trigger phrase
\* ("cloudflare"), and two of the cookie trigger phrases ("privacy policy",
\* "cookie settings")
SegKinds ==
  {"text", "note", "link", "nl", "critical", "cookie_a", "cookie_b"}

\* the number of characters of each piece
SegLen ==
  [k \in SegKinds |->
     CASE k = "text" -> 60
       [] k = "note" -> 3
       [] k = "link" -> 40
       [] k = "nl" -> 1
       [] k = "critical" -> 10
       [] k = "cookie_a" -> 14
       [] k = "cookie_b" -> 15]

Chunks == UNION {[1..n -> SegKinds] : n \in 0..MaxSegs}

\* the characters of the pieces of the given kinds
RECURSIVE CharsOf(_, _)
CharsOf(segs, kinds) ==
  IF segs = <<>> THEN 0
  ELSE (IF Head(segs) \in kinds THEN SegLen[Head(segs)] ELSE 0)
         + CharsOf(Tail(segs), kinds)

\* len(text)
TextLen(segs) == CharsOf(segs, SegKinds)

\* sum(len(l) for l in re.findall(r'\[.*?\]\(.*?\)', text)): a match starts
\* at the first "[" not yet passed, runs lazily to the next "](" of the line
\* and on to the next ")"; open is the number of characters since the "["
\* the scan is trying from, or -1. "." does not match a line break.
RECURSIVE LinkCharCount(_, _)
LinkCharCount(segs, open) ==
  IF segs = <<>> THEN 0
  ELSE LET k == Head(segs)
       IN CASE k = "link" ->
                 (IF open >= 0 THEN open ELSE 0) + SegLen[k]
                   + LinkCharCount(Tail(segs), -1)
            [] k = "nl" -> LinkCharCount(Tail(segs), -1)
            [] k = "note" ->
                 LinkCharCount(Tail(segs),
                               (IF open >= 0 THEN open ELSE 0) + SegLen[k])
            [] OTHER ->
                 LinkCharCount(Tail(segs),
                               IF open >= 0 THEN open + SegLen[k] ELSE -1)

\* the checks of _is_garbage_chunk
MinChunkLen == 100
MinCookieMatches == 2

\* the link threshold 0.4, as the fraction LinkNum / LinkDen
LinkNum == 2
LinkDen == 5

\* sum(1 for t in cookie_context_triggers if t in text_lower)
CookieMatches(segs) ==
  Cardinality({k \in {"cookie_a", "cookie_b"} : CharsOf(segs, {k}) > 0})

\* _is_garbage_chunk
IsGarbageChunk(segs) ==
  \/ TextLen(segs) < MinChunkLen
  \/ CharsOf(segs, {"critical"}) > 0
  \/ CookieMatches(segs) >= MinCookieMatches
  \/ /\ TextLen(segs) > 0
     /\ LinkCharCount(segs, -1) * LinkDen > TextLen(segs) * LinkNum

\* ------------------------------------------------------------------------
\* Names derived from topic strings
\* ------------------------------------------------------------------------

\* the topic strings of the model: up to MaxTopicLen characters
MaxTopicLen == 2

TopicChars == {"a", "A", " ", "_", "!"}

TopicStrings ==
  UNION {[1 .. n -> TopicChars] : n \in 1 .. MaxTopicLen}

\* the session directory a run for the topic initialises
SessionDir(topic) == SafeId(SafeIndexName(topic))

\* the published-set checks of the for loop, on a topic string: what the
\* loop does with the topic
SkipCheck(topic_str, topics, slugs) ==
  IF topic_str = <<>> THEN "skip_empty"
  ELSE IF NormTopic(topic_str) \in topics THEN "skip_topic"
  ELSE IF get_safe_filename(topic_str) \in slugs THEN "skip_slug"
  ELSE "run"

\* the for loop reaches a topic when the sink holds one article, published
\* for the topic `published` under the topic text as its title
SlugCheckAfter(published, topic_str) ==
  SkipCheck(topic_str, {NormTopic(published)},
            {get_safe_filename(published)})

\* ------------------------------------------------------------------------
\* The nodes called on their own, once, on any reply
\* ------------------------------------------------------------------------

nodeRest ==
  <<pc, cur, worldVars, memVars, loopVars, runVars, histVars, runs, builder,
    rag, dirs, stage, att, rs, errs, iatt, fatalRaised, fatalRun, compiled,
    DEBUG, held, got, ragPhase, lastIndex, made>>

NewCall(op, arg) == [op |-> op, arg |-> arg, out |-> <<>>, done |-> FALSE]

CallFactValidator ==
  /\ call.op = "fact_validator"
  /\ ~call.done
  /\ call' = [call EXCEPT
                !.out = FactValidatorNodeRun(call.arg.search_results,
                                             call.arg.reply),
                !.done = TRUE]
  /\ UNCHANGED nodeRest

CallQueryGenerator ==
  /\ call.op = "query_generator"
  /\ ~call.done
  /\ call' = [call EXCEPT !.out = QueryGeneratorRun(call.arg), !.done = TRUE]
  /\ UNCHANGED nodeRest

CallIsGarbageChunk ==
  /\ call.op = "is_garbage_chunk"
  /\ ~call.done
  /\ call' = [call EXCEPT !.out = IsGarbageChunk(call.arg), !.done = TRUE]
  /\ UNCHANGED nodeRest

\* two runs, for two topics: the session directory of each
CallSessionDirs ==
  /\ call.op = "session_dirs"
  /\ ~call.done
  /\ call' = [call EXCEPT
                !.out = <<SessionDir(call.arg[1]), SessionDir(call.arg[2])>>,
                !.done = TRUE]
  /\ UNCHANGED nodeRest

CallSlugCheck ==
  /\ call.op = "slug_check"
  /\ ~call.done
  /\ call' = [call EXCEPT
                !.out = SlugCheckAfter(call.arg[1], call.arg[2]),
                !.done = TRUE]
  /\ UNCHANGED nodeRest

\* the providers of the games table, and one more name a reply or the
\* config file can hold
Providers == {"p", "q"}
ProviderNames == Providers \cup {"x"}

\* a map from provider name to tier, 0 for a name that is not a key
TierMaps == [ProviderNames -> 0 .. 3]
NoTiers == [n \in ProviderNames |-> 0]

\* provider_tiers.json: not there, not loadable, or a map
ConfigFiles ==
  {[kind |-> "none", map |-> NoTiers], [kind |-> "corrupt", map |-> NoTiers]}
    \cup {[kind |-> "map", map |-> m] : m \in TierMaps}

\* get_games_with_tiers, up to the config file it leaves: full_mapping is
\* what _classify_providers_with_llm made of the reply, every key of the
\* reply with a tier of 1..3 (empty when the request failed)
GetGamesWithTiers(file, full_mapping) ==
  LET tiers_map == IF file.kind = "map" THEN file.map ELSE NoTiers
      missing_providers == {p \in Providers : tiers_map[p] = 0}
      merged == [n \in ProviderNames |->
                   IF full_mapping[n] # 0 THEN full_mapping[n]
                   ELSE IF n \in missing_providers THEN 3
                   ELSE tiers_map[n]]
  IN IF missing_providers # {}
     THEN [file |-> [kind |-> "map", map |-> merged], requested |-> TRUE,
           tiers |-> [p \in Providers |-> merged[p]]]
     ELSE [file |-> file, requested |-> FALSE,
           tiers |-> [p \in Providers |-> tiers_map[p]]]

CallGetGamesWithTiers ==
  /\ call.op = "get_games_with_tiers"
  /\ ~call.done
  /\ call' = [call EXCEPT
                !.out = GetGamesWithTiers(call.arg.file, call.arg.reply),
                !.done = TRUE]
  /\ UNCHANGED nodeRest

NodeInit ==
  /\ InitCommon
  /\ games = SmallCatalog
  /\ DEBUG = FALSE
  /\ \/ \E results \in SearchResults, reply \in FvReplies :
          call = NewCall("fact_validator",
                         [search_results |-> results, reply |-> reply])
     \/ \E reply \in QgReplies : call = NewCall("query_generator", reply)
     \/ \E segs \in Chunks : call = NewCall("is_garbage_chunk", segs)
     \/ \E t1 \in TopicStrings, t2 \in TopicStrings :
          call = NewCall("session_dirs", <<t1, t2>>)
     \/ \E t1 \in TopicStrings, t2 \in TopicStrings :
          call = NewCall("slug_check", <<t1, t2>>)
     \/ \E file \in ConfigFiles, reply \in TierMaps :
          call = NewCall("get_games_with_tiers",
                         [file |-> file, reply |-> reply])

NodeNext ==
  \/ CallFactValidator
  \/ CallQueryGenerator
  \/ CallIsGarbageChunk
  \/ CallSessionDirs
  \/ CallSlugCheck
  \/ CallGetGamesWithTiers

NodeSpec == NodeInit /\ [][NodeNext]_vars

\* ------------------------------------------------------------------------
\* Batch selection on its own (_select_daily_batch)
\* ------------------------------------------------------------------------

\* the sets of published topics the caller may pass
PublishedSets == SUBSET {NormTopic(TopicText[t]) : t \in Topics}

\* the states the caller may pass for a catalog: any index that selection
\* can leave behind with nothing queued, or the rest of the first game
\* queued and the index still at that game; a count below the daily limit
SelStates(catalog) ==
  {st \in [last_run_date : {Today},
           daily_count : 0..(DAILY_LIMIT - 1),
           current_game_index : 0..Len(catalog),
           pending_topics : {<<>>, Tail(catalog[1])}] :
     st.pending_topics # <<>> => st.current_game_index = 0}

\* the rows of the games table, by id: row i is the game whose topics are
\* FullCatalog[i]
GameIds == 1 .. Len(FullCatalog)

\* what get_games_with_tiers can give for a game: a tier, or no entry (0)
GameTiers == [GameIds -> 0 .. 3]

\* game_tiers.get(name, 3)
TierOf(game_tiers, id) ==
  IF game_tiers[id] = 0 THEN 3 ELSE game_tiers[id]

\* (tier, id) of one row sorts before that of another
KeyBefore(x, y) == x.tier < y.tier \/ (x.tier = y.tier /\ x.id < y.id)

\* a slip: the rows stay in id order
LoadGamesById(game_tiers, classified) ==
  [i \in GameIds |->
     [id |-> i, tier |-> IF classified THEN TierOf(game_tiers, i) ELSE 3]]

\* _load_games_ordered: the rows with their tiers, sorted by (tier, id); in
\* id order with tier 3 when the classification raised
LoadGamesOrdered(game_tiers, classified) ==
  LET rows == [i \in GameIds |->
                 [id |-> i,
                  tier |-> IF classified THEN TierOf(game_tiers, i) ELSE 3]]
  IN IF classified
     THEN CHOOSE s \in [GameIds -> {rows[i] : i \in GameIds}] :
            \A i, j \in GameIds : i < j => KeyBefore(s[i], s[j])
     ELSE rows

\* the list the scheduler walks: each game by its topics
CatalogOf(ordered) == [i \in 1 .. Len(ordered) |-> FullCatalog[ordered[i].id]]

\* the call of _load_games_ordered that gave the game list
LoadCall(game_tiers, classified) ==
  [op |-> "load_games_ordered",
   arg |-> [game_tiers |-> game_tiers, classified |-> classified],
   out |-> LoadGamesOrdered(game_tiers, classified),
   done |-> TRUE]

\* run_daemon_mode calls _select_daily_batch with what is left of the quota
SelInit ==
  /\ pc = "select"
  /\ \E game_tiers \in GameTiers, classified \in BOOLEAN :
       call = LoadCall(game_tiers, classified)
  /\ games = CatalogOf(call.out)
  /\ state \in SelStates(games)
  /\ published_topics \in PublishedSets
  /\ batch = <<>>
  /\ limit = DAILY_LIMIT - state.daily_count
  /\ DEBUG = FALSE
  /\ InitRest

SelNext ==
  \/ SelectStep
  \/ SelectReturn

\* the loop is sequential code: an iteration that can run does run
SelSpec == SelInit /\ [][SelNext]_vars /\ WF_vars(SelNext)

\* ------------------------------------------------------------------------
\* The daemon that keeps running
\* ------------------------------------------------------------------------

\* the body of the for loop after the published-set checks, in one step: the
\* pipeline run, and what the daemon does with its outcome
RunTopic ==
  /\ pc = "build"
  /\ \E o \in {"artifact", "noartifact", "exc", "fatal"} :
       CASE o = "artifact" ->
              /\ \E ok \in BOOLEAN, title \in {TopicText[cur], OtherTitle} :
                   /\ sink' = IF ok THEN Uploaded(cur, title) ELSE sink
                   /\ published_topics' =
                        IF ok
                        THEN published_topics \cup {NormTopic(TopicText[cur])}
                        ELSE published_topics
                   /\ published_slugs' =
                        IF ok
                        THEN published_slugs
                               \cup {get_safe_filename(TopicText[cur])}
                        ELSE published_slugs
              /\ state' = [state EXCEPT !.daily_count = @ + 1]
              /\ diskState' = Saved(state')
              /\ bi' = bi + 1
              /\ pc' = "dispatch"
              /\ UNCHANGED <<batch, limit, outcome, img, upload_success>>
         [] o \in {"noartifact", "exc"} ->
              /\ bi' = bi + 1
              /\ pc' = "dispatch"
              /\ UNCHANGED <<diskState, sink, memVars, batch, limit, outcome,
                             img, upload_success>>
         [] o = "fatal" ->
              /\ pc' = "exited"
              /\ Gone
              /\ UNCHANGED <<diskState, sink>>
  /\ cur' = NoTopic
  /\ UNCHANGED <<games, histVars, pipeVars>>

LiveNext ==
  \/ Boot
  \/ BootNoSink
  \/ LoopTop
  \/ WakeUp
  \/ SelectStep
  \/ SelectReturn
  \/ TakeTopic
  \/ BatchDone
  \/ RunTopic
  \/ NextDay

\* the process is never stopped from outside: sequential code takes its next
\* step, every await returns (a pipeline run terminates, a sleep ends once
\* its time has come), and midnight comes while the daemon sleeps
LiveSpec == Init /\ [][LiveNext]_vars /\ WF_vars(LiveNext)


\* ------------------------------------------------------------------------
\* The generation client on its own: requests made one after another on one
\* LLMClient object, each attempt of a request with its outcome
\* ------------------------------------------------------------------------

\* attempts of one async_get_embeddings call
EmbAttempts == 2

\* the bound of the client specification: failures counted
MaxErrs == FailLimit + 1

\* everything but the current request, its attempt index and the counter
clientRest ==
  <<pc, cur, worldVars, memVars, loopVars, runVars, histVars, runs, builder,
    rag, dirs, stage, rs, iatt, fatalRaised, fatalRun, compiled, DEBUG, held,
    got, ragPhase, lastIndex, made>>

\* a request that has made no attempt yet: the waits slept so far (in half
\* seconds), the outcome of the latest attempt and what the call returned
NewRequest(op) ==
  [op |-> op, arg |-> <<>>,
   out |-> [waits |-> <<>>, last |-> "none", res |-> "pending"],
   done |-> FALSE]

\* _record_failure on a counter of n: the new count, and whether it raises
RecordFailure(n) == [errors |-> n + 1, raises |-> n + 1 >= FailLimit]

\* the sleep of async_generate after its failed attempt number attempt
\* (counted from 0): (attempt + 1) * 5 s after a timeout, (attempt + 1) * 2 s
\* after any other error
GenerateWait(o, attempt) ==
  IF o = "timeout" THEN (attempt + 1) * 10 ELSE (attempt + 1) * 4

\* a caller awaits async_generate or async_get_embeddings
Request ==
  /\ call.done
  /\ errs < MaxErrs
  /\ \E op \in {"async_generate", "async_get_embeddings"} :
       call' = NewRequest(op)
  /\ att' = 0
  /\ UNCHANGED <<errs, clientRest>>

\* one pass of the loop of async_generate: the reply is returned, or the
\* failure is recorded, the call sleeps, and returns "" after the fifth
\* failure
GenerateAttempt ==
  /\ call.op = "async_generate"
  /\ ~call.done
  /\ \E o \in {"reply", "timeout", "error"} :
       IF o = "reply"
       THEN /\ errs' = 0
            /\ att' = att + 1
            /\ \E text \in {"text", ""} :
                 call' = [call EXCEPT !.out.last = o, !.out.res = text,
                                      !.done = TRUE]
       ELSE LET f == RecordFailure(errs)
            IN /\ errs' = f.errors
               /\ att' = att + 1
               /\ IF f.raises
                  THEN call' = [call EXCEPT !.out.last = o,
                                            !.out.res = "raised",
                                            !.done = TRUE]
                  ELSE call' =
                         [call EXCEPT
                            !.out.last = o,
                            !.out.waits = Append(@, GenerateWait(o, att)),
                            !.out.res = IF att + 1 >= MaxAttempts
                                        THEN "" ELSE @,
                            !.done = att + 1 >= MaxAttempts]
  /\ UNCHANGED clientRest

\* one pass of the loop of async_get_embeddings: the vector is returned, or
\* the failure is recorded and the call sleeps half a second (no sleep after
\* an error on the second attempt), and returns [] after the second failure
EmbeddingsAttempt ==
  /\ call.op = "async_get_embeddings"
  /\ ~call.done
  /\ \E o \in {"reply", "timeout", "error"} :
       IF o = "reply"
       THEN /\ errs' = 0
            /\ att' = att + 1
            /\ \E vector \in {"vector", "[]"} :
                 call' = [call EXCEPT !.out.last = o, !.out.res = vector,
                                      !.done = TRUE]
       ELSE LET f == RecordFailure(errs)
            IN /\ errs' = f.errors
               /\ att' = att + 1
               /\ IF f.raises
                  THEN call' = [call EXCEPT !.out.last = o,
                                            !.out.res = "raised",
                                            !.done = TRUE]
                  ELSE call' =
                         [call EXCEPT
                            !.out.last = o,
                            !.out.waits = IF o = "error" /\ att = 1
                                          THEN @ ELSE Append(@, 1),
                            !.out.res = IF att + 1 >= EmbAttempts
                                        THEN "[]" ELSE @,
                            !.done = att + 1 >= EmbAttempts]
  /\ UNCHANGED clientRest

ClientNext == Request \/ GenerateAttempt \/ EmbeddingsAttempt

ClientSpec == Init /\ [][ClientNext]_vars
\* ------------------------------------------------------------------------
\* Properties of the scheduler
\* ------------------------------------------------------------------------

\* C1: batch selection increments current_game_index only in a step that
\* leaves pending_topics empty; it never advances while topics of the
\* current game are still queued.
C1_IndexAdvancesOnlyWhenDrained ==
  [][(pc = "select"
        /\ state'.current_game_index = state.current_game_index + 1)
       => state'.pending_topics = <<>>]_vars

\* selection has drained the pending topics of the first game into the
\* batch and moved on to the second game
C1_Witness ==
  /\ pc = "select"
  /\ batch = <<"a", "b">>
  /\ state.pending_topics = <<>>
  /\ state.current_game_index = 1

C3_NoPipelineForPublished ==
  pc = "build" =>
    /\ NormTopic(TopicText[cur]) \notin published_topics
    /\ get_safe_filename(TopicText[cur]) \notin published_slugs

\* the first topic of a batch was passed without a dispatch, its slug being
\* published while its text is not among the published topics
C3_Witness ==
  /\ pc = "dispatch"
  /\ bi = 2
  /\ cur = NoTopic
  /\ get_safe_filename(TopicText[batch[1]]) \in published_slugs
  /\ NormTopic(TopicText[batch[1]]) \notin published_topics

\* C4: after a restart that lost the state file and the caches, no topic the
\* sink holds as published is dispatched, whatever the queries returned.
C4_NoRerunAfterLoss ==
  (pc = "build" /\ lost) => ~SinkHolds(cur)

\* ------------------------------------------------------------------------
\* Properties of the generation client, the pipeline and the store
\* ------------------------------------------------------------------------

\* C5: once the consecutive-failures error has been raised, by a pipeline
\* stage or by the image task, the daemon runs no pipeline of a later topic.
C5_FatalStopsDaemon ==
  (pc = "running" /\ fatalRaised > 0) => runs = fatalRun

\* C6: when the daemon's client has counted 11 consecutive failures, the
\* consecutive-failures error has been raised exactly once.
C6_FatalRaisedOnce ==
  (pc \in {"running", "ran"} /\ errs >= FailLimit + 1) => fatalRaised = 1

\* C7: every invocation of the Compiler has called the cleanup of the
\* retrieval store when it returns, whichever way it returns.
C7_CompilerAlwaysCleans ==
  compiled # "no" => compiled = "cleaned"

\* C8: when a run ends, the session directory its indexing stage made is no
\* longer there.
C8_SessionDirGone ==
  (pc \in {"ran", "prod_ran"} /\ made # NoPath) => made \notin dirs

\* C9: a retrieve call made after a cleanup and before the next init_session,
\* or after an init_session and before a table is indexed, returns the empty
\* list and raises nothing.
C9_RetrieveEmptyWithoutTable ==
  ragPhase \in {"cleaned", "inited"} => got.res \in {"none", "empty"}

\* a retriever obtained before the cleanup was called after it, the session
\* directory still being there, and it returned the empty list
C9_Witness ==
  /\ ragPhase = "cleaned"
  /\ got = [res |-> "empty", via |-> "old", texts |-> {}]
  /\ dirs # {}

\* C10: a run starts on a GraphBuilder no earlier run had, with a retrieval
\* store and a run state that hold nothing of an earlier run.
C10_RunsShareNothing ==
  [][(pc' \in {"running", "prod_running"}
        /\ pc \notin {"running", "prod_running"})
       => /\ builder' \notin 0..runs
          /\ rag' = NoRag
          /\ rs' = NoRun]_vars

\* the second run of the daemon starts while the directory the first run
\* made is still on disk
C10_Witness ==
  /\ pc = "running"
  /\ builder = 2
  /\ stage = "db"
  /\ rag = NoRag
  /\ dirs # {}

\* ------------------------------------------------------------------------
\* Properties of the run state, the stage order and the nodes
\* ------------------------------------------------------------------------

\* C11: while a pipeline runs, a field of the run state changes only in a
\* step of the one stage whose wrapper returns it, and the passport, once
\* set by the fact validator, stays as it is.
C11_FieldsWrittenOnce ==
  [][Running =>
       /\ \A f \in DOMAIN WrittenBy : rs'[f] # rs[f] => stage = WrittenBy[f]
       /\ rs.passport = "set" => rs'.passport = "set"]_vars

\* a run has reached the compiler with the passport, the outline, the
\* retriever and a section written
C11_Witness ==
  /\ pc = "running"
  /\ stage = "compile"
  /\ rs.passport = "set"
  /\ rs.outline = "ok"
  /\ rs.retriever
  /\ rs.sections = 1

\* C12: a run enters the graph at the DB lookup and moves from a stage only
\* to the next stage of the chain DB lookup, query planning, content
\* acquisition, fact validation, outline planning, retrieval indexing,
\* section writing, compilation; it leaves the graph after the compilation,
\* or earlier only by a stage that raised.
C12_StagesInOrder ==
  [][/\ (pc' \in {"running", "prod_running"}
           /\ pc \notin {"running", "prod_running"}) => stage' = "db"
     /\ (pc \in {"running", "prod_running"} /\ stage' # stage)
          => \/ <<stage, stage'>> \in Edges
             \/ /\ stage' = "idle"
                /\ stage = "compile" \/ outcome' \in {"exc", "fatal"}]_vars

\* a run whose query list, search results and outline were all empty has
\* gone through the compiler
C12_Witness ==
  /\ pc = "ran"
  /\ compiled = "early"
  /\ ~rs.queries
  /\ ~rs.results
  /\ rs.outline = "none"
  /\ made # NoPath

\* C16: the file name the Compiler wrote is the slug the daemon derived from
\* the topic and checked before the run; after a successful upload it is the
\* slug the sink holds and the slug the daemon remembers as published; and a
\* run is never started for a topic whose slug is remembered as published.
C16_OneSlugPerTopic ==
  /\ (pc \in {"ran", "uploaded"} /\ outcome = "artifact")
       => rs.final = get_safe_filename(TopicText[cur])
  /\ (pc = "uploaded" /\ upload_success)
       => /\ rs.final \in published_slugs
          /\ \E a \in sink : a.slug = rs.final
  /\ pc \in {"build", "running"}
       => get_safe_filename(TopicText[cur]) \notin published_slugs

\* an article was uploaded under a title that is not the topic text, and the
\* sink holds it under the name of the file
C16_Witness ==
  /\ pc = "uploaded"
  /\ upload_success
  /\ rs.final # NoPath
  /\ [title |-> OtherTitle, slug |-> rs.final] \in sink

\* C19: daily_count never exceeds the daily limit; the topics of the batch
\* still to be taken never number more than the limit minus daily_count; no
\* batch is selected and no pipeline built while daily_count is at the limit;
\* daily_count changes only by one, after a run that produced an artifact, or
\* to 0 at the top of the loop on a new date (or when the process starts or
\* stops), and every such run adds one.
C19_DailyQuota ==
  /\ [](/\ state.daily_count <= DAILY_LIMIT
        /\ pc \in {"dispatch", "build", "ran", "uploaded"}
             => state.daily_count + (Len(batch) - bi + 1) <= DAILY_LIMIT
        /\ pc \in {"select", "build"} => state.daily_count < DAILY_LIMIT
        /\ pc = "uploaded" => outcome = "artifact")
  /\ [][/\ (state'.daily_count # state.daily_count)
             => \/ pc = "uploaded" /\ state'.daily_count = state.daily_count + 1
                \/ /\ pc = "loop"
                   /\ state.last_run_date # Today
                   /\ state'.daily_count = 0
                \/ pc = "boot"
                \/ pc' \in {"boot", "exited"}
        /\ (pc = "uploaded" /\ pc' = "dispatch")
             => state'.daily_count = state.daily_count + 1
        /\ (pc = "sleep_limit" /\ pc' = "loop")
             => state.last_run_date # Today]_vars

\* the quota is used up by two artifacts of one batch and the daemon sleeps
\* until midnight
C19_Witness ==
  /\ pc = "sleep_limit"
  /\ state.daily_count = DAILY_LIMIT
  /\ Len(batch) = DAILY_LIMIT
  /\ state.last_run_date = Today

\* C20: when a run or the publishing of its article raised an exception that
\* is not the consecutive-failures error, the daemon's next step takes it to
\* the next topic of the same batch; and from the dispatch of a topic to the
\* end of its handling the scheduler state (daily_count, current_game_index,
\* pending_topics) changes only by the count of a published artifact or by
\* the stop of the daemon.
C20_FailedTopicChangesNothing ==
  [][/\ (pc = "ran" /\ outcome = "exc")
          => /\ pc' = "dispatch"
             /\ bi' = bi + 1
             /\ batch' = batch
             /\ state' = state
     /\ (pc \in {"build", "running", "ran"} /\ pc' # "exited")
          => state' = state]_vars

\* the run of the first topic of a batch of two ended by an exception in the
\* indexing stage, and the daemon is about to take the second topic with the
\* scheduler state as it was
C20_Witness ==
  /\ pc = "dispatch"
  /\ bi = 2
  /\ Len(batch) = 2
  /\ runs = 1
  /\ compiled = "no"
  /\ made # NoPath
  /\ fatalRaised = 0
  /\ state.daily_count = 0

\* C13: the passport the fact validator returns has the writing strategy
\* the decision matrix gives for its match_status, whatever the reply.
C13_StrategyFollowsStatus ==
  (call.op = "fact_validator" /\ call.done
     /\ call.out.decision.match_status \in Statuses)
    => call.out.decision.selected_writing_strategy
         = StrategyOf[call.out.decision.match_status]

\* C14: whatever the reply, the fact validator raises nothing and returns a
\* passport with the four sub-records, whose decision has a match_status and
\* a selected_writing_strategy.
C14_AlwaysUsablePassport ==
  (call.op = "fact_validator" /\ call.done)
    => /\ call.out.raised = "none"
       /\ call.out.analysis \in {"dict", "default"}
       /\ call.out.facts \in {"dict", "default"}
       /\ call.out.technical_specs \in {"dict", "default"}
       /\ call.out.decision.form \in {"dict", "default"}
       /\ call.out.decision.match_status # Absent
       /\ call.out.decision.selected_writing_strategy # Absent

\* the reply was an object with an empty decision, facts that are no object
\* and no technical_specs, and a passport came back
C14_Witness ==
  /\ call.op = "fact_validator"
  /\ call.done
  /\ call.arg.reply.kind = "object"
  /\ call.arg.reply.decision.form = "dict"
  /\ call.arg.reply.decision.match_status = Absent
  /\ call.arg.reply.decision.selected_writing_strategy = Absent
  /\ call.arg.reply.facts = "notdict"
  /\ call.arg.reply.technical_specs = "missing"
  /\ call.out.facts = "default"

\* C15: whatever the reply, the query generator returns a list of 3 to 5
\* queries.
C15_ThreeToFiveQueries ==
  (call.op = "query_generator" /\ call.done)
    => /\ call.out.raised = "none"
       /\ call.out.kind = "list"
       /\ call.out.n \in 3..5

\* C17: the chunk filter rejects a chunk exactly when it is shorter than 100
\* characters, or holds a critical trigger phrase, or holds two or more
\* cookie trigger phrases, or has more than 0.4 of its characters in
\* markdown links.
C17_RejectsExactly ==
  (call.op = "is_garbage_chunk" /\ call.done)
    => (call.out
          <=> \/ TextLen(call.arg) < MinChunkLen
              \/ CharsOf(call.arg, {"critical"}) > 0
              \/ CookieMatches(call.arg) >= MinCookieMatches
              \/ CharsOf(call.arg, {"link"}) * LinkDen
                   > TextLen(call.arg) * LinkNum)

\* C18: batch selection terminates, for every catalog, every set of
\* published topics and every scheduler state: the call of
\* _select_daily_batch returns, to the dispatch of its batch or to the
\* no-work sleep.
C18_SelectionTerminates ==
  <>(pc \in {"dispatch", "sleep_nowork"})

\* ------------------------------------------------------------------------
\* Properties of the error paths, the state file, the image task and the
\* contents of the store
\* ------------------------------------------------------------------------

\* C21: the invocation of the pipeline ends by returning a run state, with
\* or without a final artifact, or by the consecutive-failures error; no
\* other exception of a stage comes out of it.
C21_StageErrorsStayInside ==
  [][(pc \in {"running", "prod_running"}
        /\ pc' \notin {"running", "prod_running"})
       => outcome' \in {"artifact", "noartifact", "fatal"}]_vars

\* C22: whenever the daemon is about to build a pipeline or is asleep, the
\* state file exists and holds the daily_count, the current_game_index and
\* the pending_topics the daemon has in memory.
C22_StateFileFollowsMemory ==
  pc \in {"build", "sleep_limit", "sleep_nowork"}
    => /\ diskState.exists
       /\ diskState.content.daily_count = state.daily_count
       /\ diskState.content.current_game_index = state.current_game_index
       /\ diskState.content.pending_topics = state.pending_topics

\* C23: when the snippets passed to the fact validator report two or more
\* RTP values, the rtp_single_value of the passport returned is the highest
\* of the reported values.
C23_HighestRtpWins ==
  (call.op = "fact_validator" /\ call.done)
    => LET reported == call.arg.search_results \cap RtpValues
       IN Cardinality(reported) >= 2
            => /\ call.out.rtp_single_value \in reported
               /\ \A v \in reported :
                    RtpOf[v] <= RtpOf[call.out.rtp_single_value]

\* C26: when the search results passed to the fact validator are empty, the
\* passport returned has match_status GENERIC_QUERY and strategy
\* GENERIC_GUIDE.
C26_GenericWithoutResults ==
  (call.op = "fact_validator" /\ call.done /\ call.arg.search_results = {})
    => /\ call.out.decision.match_status = "GENERIC_QUERY"
       /\ call.out.decision.selected_writing_strategy = "GENERIC_GUIDE"

\* C27: when the reply is an object that lacks one of the four sub-records,
\* the passport returned is the fallback passport of a parse failure.
C27_DefaultPassportOnMissingRecord ==
  (call.op = "fact_validator" /\ call.done
     /\ call.arg.reply.kind = "object"
     /\ \/ call.arg.reply.analysis = "missing"
        \/ call.arg.reply.decision.form = "missing"
        \/ call.arg.reply.facts = "missing"
        \/ call.arg.reply.technical_specs = "missing")
    => call.out = FallbackPassport

\* C24: an image task is running only while the pipeline of its topic runs
\* or has just ended; when the daemon leaves a run that raised or returned
\* no artifact, the task is cancelled unless it had finished.
C24_NoImageTaskLeftRunning ==
  /\ [](img = "running" => pc \in {"running", "ran"})
  /\ [][(pc = "ran" /\ outcome \in {"noartifact", "exc"}
           /\ pc' = "dispatch")
          => img' = IF img \in {"ok", "empty", "exc"} THEN img
                    ELSE "cancelled"]_vars

\* the run of the first topic ended without an artifact while its image task
\* was still running, and the daemon is at the next topic with the task
\* cancelled
C24_Witness ==
  /\ pc = "dispatch"
  /\ bi = 2
  /\ runs = 1
  /\ img = "cancelled"
  /\ compiled = "early"

\* C25: the upload of an article starts only when the image task of its
\* topic has finished, with a result, with an empty result or with an
\* exception.
C25_UploadAfterImageTask ==
  [][(pc = "ran" /\ pc' = "uploaded")
       => img \in {"ok", "empty", "exc"}]_vars

\* the image task ended with an exception and the article was uploaded all
\* the same
C25_Witness ==
  /\ pc = "uploaded"
  /\ upload_success
  /\ img = "exc"
  /\ [title |-> TopicText[cur], slug |-> rs.final] \in sink

\* C28: in a run whose outline planning returned no outline, no step of the
\* section-writing stage is an attempt of a generation call or writes a
\* draft, the stage hands over to the Compiler, and the Compiler returns
\* without a file and without an artifact.
C28_NoOutlineNoArticle ==
  [][(pc \in {"running", "prod_running"} /\ rs.outline = "none")
       => /\ stage = "write"
            => /\ att' = att
               /\ rs' = rs
               /\ pc' = pc
               /\ stage' \in {"write", "compile"}
          /\ (stage = "compile" /\ stage' # stage)
            => /\ outcome' = "noartifact"
               /\ compiled' = "early"
               /\ rs' = rs
               /\ rs.sections = 0
               /\ rs.final = NoPath]_vars

\* a run of the daemon whose outline planning returned no outline, although
\* chunks were indexed, has ended without an artifact
C28_Witness ==
  /\ pc = "ran"
  /\ outcome = "noartifact"
  /\ rs.outline = "none"
  /\ rs.retriever
  /\ rs.sections = 0
  /\ compiled = "early"


\* C29: every retrieve call returns at most k chunk texts, all of them among
\* the chunks passed to the most recent index_chunks call of the current
\* session (none when the session has had no such call), so that nothing
\* indexed in an earlier session is returned.
C29_RetrieveFromLastIndex ==
  got.res # "none"
    => /\ Cardinality(got.texts) <= RetrieveLimit
       /\ got.texts \subseteq lastIndex.chunks

\* C30: after index_chunks(chunks) has returned, the store holds exactly the
\* given chunks, for every chunk list, the empty one included.
C30_IndexReplacesContent ==
  lastIndex.called => rag.rows = lastIndex.chunks

\* ------------------------------------------------------------------------
\* Claims C31 to C40
\* ------------------------------------------------------------------------

\* C31: init_session gives each topic its own namespace: two runs for
\* different topics never derive the same session directory.
C31_SessionDirPerTopic ==
  (call.op = "session_dirs" /\ call.done
     /\ NormTopic(call.arg[1]) # NormTopic(call.arg[2]))
    => call.out[1] # call.out[2]

\* C39: a topic that was never published is never skipped as already
\* published: when the sink holds the article of one topic, the published-set
\* checks skip another topic only if it is that very topic.
C39_SkipOnlyPublishedTopic ==
  (call.op = "slug_check" /\ call.done /\ call.out # "run")
    => NormTopic(call.arg[2]) = NormTopic(call.arg[1])

\* C32: with the debug setting on, the cleanup the compiler makes at the end
\* of a run leaves the session directory on disk as it was. (With the
\* setting off the cleanup removes the directory unless rmtree fails.)
C32_DebugKeepsStorage ==
  [][(pc \in {"running", "prod_running"} /\ compiled # "cleaned"
        /\ compiled' = "cleaned" /\ DEBUG)
       => dirs' = dirs]_vars

\* C38: a batch returned by _select_daily_batch never contains the same topic
\* twice.
C38_BatchHasNoDuplicate ==
  (pc = "select" /\ Len(batch) >= limit)
    => \A i, j \in 1..Len(batch) : batch[i] = batch[j] => i = j

\* C34: when more topics are queued than the quota has room for, a selection
\* step takes exactly the remaining number from the front of pending_topics
\* and leaves the rest queued in their order with current_game_index
\* unchanged; the daemon, while its process runs, leaves the queue alone
\* between selections, and a selection takes queued topics before it builds
\* the pending list of any game.
C34_LeftoverTakenFirst ==
  /\ [][(pc = "select" /\ pc' = "select"
           /\ state'.last_run_date = state.last_run_date
           /\ Len(state.pending_topics) > limit - Len(batch))
          => /\ batch' = batch \o SubSeq(state.pending_topics, 1,
                                         limit - Len(batch))
             /\ state'.pending_topics =
                  SubSeq(state.pending_topics, limit - Len(batch) + 1,
                         Len(state.pending_topics))
             /\ state'.current_game_index = state.current_game_index]_vars
  /\ [][(pc \notin {"select", "boot", "exited"}
           /\ pc' \notin {"boot", "exited"})
          => state'.pending_topics = state.pending_topics]_vars
  /\ [][(pc = "select" /\ pc' = "select"
           /\ state'.last_run_date = state.last_run_date
           /\ Len(batch) < limit /\ state.pending_topics # <<>>)
          => /\ batch' # batch
             /\ batch'[Len(batch) + 1] = state.pending_topics[1]]_vars

\* a selection starts with topic b, which an earlier selection left queued
\* when it took topic a only (a is still unpublished, so that the pending
\* list of the game would hold both), the index still at their game
C34_Witness ==
  /\ pc = "select"
  /\ batch = <<>>
  /\ state.pending_topics = <<"b">>
  /\ state.current_game_index = 0
  /\ NormTopic(TopicText["a"]) \notin published_topics
  /\ NormTopic(TopicText["a"]) \notin SinkTopics


\* C35: no game is starved: while the daemon keeps running, a game that has an
\* unpublished topic is eventually selected and a topic of it dispatched
\* (unless a run under way publishes what the game had left), whatever the
\* other games have unpublished.
C35_NoGameStarved ==
  \A g \in 0..(Len(FullCatalog) - 1) :
    (pc # "exited" /\ Unpublished(g) # {})
      ~> \/ pc = "exited"
         \/ Unpublished(g) = {}
         \/ pc = "build" /\ GameOf(cur) = g

\* the topic of the second game is dispatched while both topics of the first
\* game are still unpublished
C35_Witness ==
  /\ pc = "build"
  /\ cur = "c"
  /\ Unpublished(0) = {"a", "b"}

\* C33: the games are walked in the order of (tier, id), lowest tier first,
\* ties by ascending id; the walk index stays between 0 and the number of
\* games, a visit restarts at the first game when the index has reached the
\* end, and the game a visit reads is always one of the list
C33_WalkInTierOrder ==
  /\ [](/\ call.op = "load_games_ordered"
        /\ call.arg.classified
             => \A i, j \in 1 .. Len(call.out) :
                  i < j => KeyBefore(call.out[i], call.out[j])
        /\ \A i \in 1 .. Len(call.out) :
             call.out[i].tier =
               IF call.arg.classified
               THEN TierOf(call.arg.game_tiers, call.out[i].id) ELSE 3
        /\ {call.out[i].id : i \in 1 .. Len(call.out)} = GameIds
        /\ games = CatalogOf(call.out))
  /\ [](state.current_game_index \in 0 .. Len(games))
  /\ [][(pc = "select" /\ pc' = "select" /\ Len(batch) < limit
           /\ state.pending_topics = <<>>)
          => LET idx == IF state.current_game_index >= Len(games)
                        THEN 0 ELSE state.current_game_index
             IN /\ idx \in 0 .. (Len(games) - 1)
                /\ \/ /\ state'.current_game_index = idx + 1
                      /\ state'.pending_topics = <<>>
                      /\ batch' = batch
                   \/ /\ state'.current_game_index = idx
                      /\ batch' \o state'.pending_topics # <<>>
                      /\ \A k \in 1 .. Len(batch' \o state'.pending_topics) :
                           k > Len(batch) =>
                             \E m \in 1 .. Len(games[idx + 1]) :
                               (batch' \o state'.pending_topics)[k]
                                 = games[idx + 1][m]]_vars

C33_Witness ==
  /\ call.op = "load_games_ordered"
  /\ call.arg.classified
  /\ call.out[1].id = 2
  /\ pc = "select"
  /\ batch = <<"c", "a">>
  /\ state.current_game_index = 1

\* C37: a generation request makes at most 5 attempts and an embedding
\* request at most 2; each wait of a request is longer than the one before
\* it; a request whose last attempt failed returns the empty string (the
\* empty vector), and it raises only with the failure counter at the limit
C37_BoundedRetriesGrowingWait ==
  call.op \in {"async_generate", "async_get_embeddings"}
    => /\ att <= (IF call.op = "async_generate" THEN 5 ELSE 2)
       /\ ~call.done => att < (IF call.op = "async_generate" THEN 5 ELSE 2)
       /\ \A i, j \in 1 .. Len(call.out.waits) :
            i < j => call.out.waits[i] < call.out.waits[j]
       /\ (call.done /\ call.out.last # "reply")
            => \/ call.out.res = (IF call.op = "async_generate"
                                  THEN "" ELSE "[]")
               \/ call.out.res = "raised" /\ errs >= 10

\* C40: the failure counter of the shared client is changed by an attempt of
\* a generation call alone: a reply sets it to 0 and a failed attempt adds
\* one, whichever stage, image task or topic the call belongs to; nothing
\* else, a new graph or a new topic included, resets it; the counter is 0
\* after a reply (the outline a reply gave, the image prompt a retried call
\* got in the end); and the fatal error is raised only by a failure that
\* brings the count to 10 or more
C40_FailuresCountedAcrossCalls ==
  [][/\ errs' \in {0, errs, errs + 1}
     /\ (att' = att + 1 \/ iatt' = iatt + 1) => errs' = errs + 1
     /\ errs' # errs => (pc = "running" \/ pc = "prod_running"
                           \/ img = "running")
     /\ (pc' \notin {"boot", "exited"} /\ runs' # runs) => errs' = errs
     /\ (pc' \notin {"boot", "exited"} /\ cur' # cur) => errs' = errs
     /\ (pc' \notin {"boot", "exited"} /\ stage' # stage /\ errs' # 0
           /\ fatalRaised' = fatalRaised)
          => errs' = errs \/ (errs' = errs + 1 /\ att + 1 >= 5)
     /\ (pc' \notin {"boot", "exited"} /\ rs.outline # "ok"
           /\ rs'.outline = "ok") => errs' = 0
     /\ (img = "running" /\ iatt > 0 /\ img' = "ok") => errs' = 0
     /\ fatalRaised' # fatalRaised => (errs' = errs + 1 /\ errs' >= 10)]_vars

C40_Witness ==
  /\ pc = "running"
  /\ runs = 2
  /\ stage = "qgen"
  /\ att = 0
  /\ img = "running"
  /\ iatt = 0
  /\ errs = 7

\* C36: after get_games_with_tiers every entry the config file held has its
\* old tier, the entries added are providers of the catalog that the file
\* did not hold, and every provider of the catalog has an entry, so that the
\* next call finds no provider missing
C36_TiersAppendedNeverOverwritten ==
  (call.op = "get_games_with_tiers" /\ call.done)
    => LET before == IF call.arg.file.kind = "map"
                     THEN call.arg.file.map ELSE NoTiers
           after == call.out.file.map
       IN /\ \A n \in ProviderNames : before[n] # 0 => after[n] = before[n]
          /\ \A n \in ProviderNames :
               (before[n] = 0 /\ after[n] # 0) => n \in Providers
          /\ call.out.requested => \A p \in Providers : after[p] # 0
          /\ ~call.out.requested => \A p \in Providers : before[p] # 0
====
